---- MODULE Spec2Model ----
(***************************************************************************)
(* Model of solution.py: decimate_by_2, downsample_by_2, convolve_arrays   *)
(* and the module constant KAISER_CONVOLUTION_FILTER.                      *)
(*                                                                         *)
(* Lists live in a heap (a sequence of lists; the address of a list is its *)
(* index).  Each thread executes one top-level call, statement by          *)
(* statement, on its own call stack.  Sample values are exact numbers:     *)
(* integers stand for the list elements and the kernel coefficients are    *)
(* written in units of 10^-8.  IEEE rounding of float sums is not          *)
(* modelled.  Python indices are 0-based, TLA+ sequences 1-based: element  *)
(* i of a Python list is element i+1 of the modelled list.                 *)
(***************************************************************************)
EXTENDS Integers, Sequences, FiniteSets, TLC

\* ------------------------------------------------------------------ bounds
MaxLen == 4          \* longest list given to a call that runs alone
MaxConcLen == 3      \* longest list given to calls that run concurrently
MaxSignalLen == 34   \* longest signal given to downsample_by_2 running alone

Vals == {-1, 2}
Threads == {1, 2}

\* --------------------------------------------------------- module constant
KAISER_CONVOLUTION_FILTER ==
  << -1452123, -1552270,  1667252,  1800633, -1957209,
     -2143610,  2369253,  2647989, -3001054, -3462755,
      4092347,  5001757, -6430831, -9003163, 15005272,
     45015816, 45015816, 15005272, -9003163, -6430831,
      5001757,  4092347, -3462755, -3001054,  2647989,
      2369253, -2143610, -1957209,  1800633,  1667252,
     -1552270, -1452123 >>

KernelAddr == 1      \* heap address the global name is bound to
NoAddr == 0

\* ------------------------------------------------------------ Python bits
Max(a, b) == IF a >= b THEN a ELSE b
Min(a, b) == IF a <= b THEN a ELSE b

\* [0] * len
Zeros(len) == [i \in 1..len |-> 0]

\* `not signal` on a list
IsEmptyAlways(s) == FALSE
IsEmpty(s) == Len(s) = 0

\* signal[::2]
EveryOtherOdd(s) == [i \in 1..(Len(s) \div 2) |-> s[2 * i]]
EveryOther(s) == [i \in 1..((Len(s) + 1) \div 2) |-> s[2 * i - 1]]

\* max(len(signal), len(conv_filter))
OutputArrayLengthFull(ls, lf) == IF ls + lf = 0 THEN 0 ELSE ls + lf - 1
OutputArrayLengthMin(ls, lf) == Min(ls, lf)
OutputArrayLength(ls, lf) == Max(ls, lf)

\* (min(len(signal), len(conv_filter)) - 1) // 2, Python floor division
CenteringFactorMax(ls, lf) == (Max(ls, lf) - 1) \div 2
CenteringFactorFilter(ls, lf) == (lf - 1) \div 2
CenteringFactor(ls, lf) == (Min(ls, lf) - 1) \div 2

\* ------------------------------------------------ the functions, run alone
\* The inner loop of convolve_arrays from index k on, for output index n.
RECURSIVE InnerLoop(_, _, _, _, _, _)
InnerLoop(signal, conv_filter, n, c, k, running_sum) ==
  IF k >= Len(conv_filter) THEN running_sum
  ELSE LET signal_idx == n - k + c IN
       IF signal_idx < 0 THEN running_sum
       ELSE IF signal_idx > Len(signal) - 1
            THEN InnerLoop(signal, conv_filter, n, c, k + 1, running_sum)
            ELSE InnerLoop(signal, conv_filter, n, c, k + 1,
                           running_sum + conv_filter[k + 1] * signal[signal_idx + 1])

convolve_arrays(signal, conv_filter) ==
  LET output_array_length == OutputArrayLength(Len(signal), Len(conv_filter))
      centering_factor == CenteringFactor(Len(signal), Len(conv_filter))
  IN [m \in 1..output_array_length |->
        InnerLoop(signal, conv_filter, m - 1, centering_factor, 0, 0)]

\* The value a raising call has: no list at all.
ValueError == "ValueError"

decimate_by_2(signal) ==
  IF IsEmpty(signal) THEN ValueError ELSE EveryOther(signal)

downsample_by_2(signal) ==
  IF IsEmpty(signal) THEN ValueError
  ELSE decimate_by_2(convolve_arrays(signal, KAISER_CONVOLUTION_FILTER))

\* ------------------------------------------------------------------- state
VARIABLES heap,      \* the lists: heap[a] is the list at address a
          heap0,     \* the heap as it was when the calls were made
          threads    \* per thread: its top-level call, call stack and outcome

vars == <<heap, heap0, threads>>

\* A fresh activation record; locals not yet assigned are 0.
NewFrame(fn, args) ==
  [fn |-> fn,
   pc |-> CASE fn = "decimate_by_2" -> "dec_check"
            [] fn = "downsample_by_2" -> "ds_check"
            [] OTHER -> "conv_init",
   signal |-> args[1],
   conv_filter |-> IF Len(args) > 1 THEN args[2] ELSE NoAddr,
   output_array_length |-> 0, centering_factor |-> 0, output |-> NoAddr,
   n |-> 0, k |-> 0, running_sum |-> 0,
   filtered_signal |-> NoAddr, decimated_filtered_signal |-> NoAddr]

\* A thread about to execute the call fn(*args).
Call(fn, args) ==
  [status |-> "running", fn |-> fn, args |-> args,
   stack |-> <<NewFrame(fn, args)>>,
   result |-> NoAddr, error |-> "none",
   calls |-> <<[fn |-> fn, args |-> args]>>, raised |-> 0]

\* A thread that makes no call.
Idle ==
  [status |-> "idle", fn |-> "none", args |-> <<>>, stack |-> <<>>,
   result |-> NoAddr, error |-> "none", calls |-> <<>>, raised |-> 0]

Top(th) == th.stack[Len(th.stack)]
Running(t) == threads[t].status = "running"
At(t, pc) == Running(t) /\ Top(threads[t]).pc = pc
SetTop(th, f) == [th EXCEPT !.stack[Len(th.stack)] = f]

\* fn(*args) called from the top frame: the callee's frame is pushed.
Invoke(th, fn, args) ==
  [th EXCEPT !.stack = Append(@, NewFrame(fn, args)),
             !.calls = Append(@, [fn |-> fn, args |-> args])]

\* `return addr` in the top frame.  The top-level call ends the thread; a
\* nested one resumes downsample_by_2 at the assignment that made the call.
Return(th, addr) ==
  IF Len(th.stack) = 1
  THEN [th EXCEPT !.stack = <<>>, !.status = "returned", !.result = addr]
  ELSE LET caller == th.stack[Len(th.stack) - 1]
           resumed == IF caller.pc = "ds_conv"
                      THEN [caller EXCEPT !.filtered_signal = addr, !.pc = "ds_dec"]
                      ELSE [caller EXCEPT !.decimated_filtered_signal = addr,
                                          !.pc = "ds_ret"]
       IN [th EXCEPT !.stack = Append(SubSeq(@, 1, Len(@) - 2), resumed)]

\* `raise ValueError(...)`: no frame has a handler, the whole stack unwinds.
Raise(th) ==
  [th EXCEPT !.stack = <<>>, !.status = "raised", !.error = ValueError,
             !.raised = @ + 1]

\* ---------------------------------------------------------- decimate_by_2
\* if not signal: raise ValueError('Audio signal not provided.')
DecimateCheck(t) ==
  /\ At(t, "dec_check")
  /\ LET th == threads[t]
         f == Top(th)
     IN threads' = [threads EXCEPT ![t] =
          IF IsEmpty(heap[f.signal]) THEN Raise(th)
          ELSE SetTop(th, [f EXCEPT !.pc = "dec_slice"])]
  /\ UNCHANGED <<heap, heap0>>

\* signal[::2] builds a new list; the heap after it and the list's address.
SliceInPlace(h, sig) ==
  [heap |-> [h EXCEPT ![sig] = EveryOther(h[sig])], addr |-> sig]
Slice(h, sig) ==
  [heap |-> Append(h, EveryOther(h[sig])), addr |-> Len(h) + 1]

\* return signal[::2]
DecimateReturn(t) ==
  /\ At(t, "dec_slice")
  /\ LET th == threads[t]
         r == Slice(heap, Top(th).signal)
     IN /\ heap' = r.heap
        /\ threads' = [threads EXCEPT ![t] = Return(th, r.addr)]
  /\ UNCHANGED heap0

\* -------------------------------------------------------- downsample_by_2
\* if not signal: raise ValueError('Audio signal not provided.')
DownsampleCheck(t) ==
  /\ At(t, "ds_check")
  /\ LET th == threads[t]
         f == Top(th)
     IN threads' = [threads EXCEPT ![t] =
          IF IsEmpty(heap[f.signal]) THEN Raise(th)
          ELSE SetTop(th, [f EXCEPT !.pc = "ds_conv"])]
  /\ UNCHANGED <<heap, heap0>>

\* The arguments of the call convolve_arrays(signal, KAISER_CONVOLUTION_FILTER).
ConvolveArgsSwapped(f) == <<KernelAddr, f.signal>>
ConvolveArgs(f) == <<f.signal, KernelAddr>>

\* filtered_signal = convolve_arrays(signal, KAISER_CONVOLUTION_FILTER): the call
DownsampleCallConvolve(t) ==
  /\ At(t, "ds_conv")
  /\ LET th == threads[t]
     IN threads' = [threads EXCEPT ![t] =
          Invoke(th, "convolve_arrays", ConvolveArgs(Top(th)))]
  /\ UNCHANGED <<heap, heap0>>

\* decimated_filtered_signal = decimate_by_2(filtered_signal): the call
DownsampleCallDecimate(t) ==
  /\ At(t, "ds_dec")
  /\ LET th == threads[t]
     IN threads' = [threads EXCEPT ![t] =
          Invoke(th, "decimate_by_2", <<Top(th).filtered_signal>>)]
  /\ UNCHANGED <<heap, heap0>>

\* return decimated_filtered_signal
DownsampleReturn(t) ==
  /\ At(t, "ds_ret")
  /\ LET th == threads[t]
     IN threads' = [threads EXCEPT ![t] =
          Return(th, Top(th).decimated_filtered_signal)]
  /\ UNCHANGED <<heap, heap0>>

\* -------------------------------------------------------- convolve_arrays
\* output = [0] * output_array_length builds a new list; the heap after it and
\* the list's address.
OutputAllocScratch(h, len) ==
  IF Len(h) > 3
  THEN [heap |-> [h EXCEPT ![4] = Zeros(len)], addr |-> 4]
  ELSE [heap |-> Append(h, Zeros(len)), addr |-> Len(h) + 1]
OutputAlloc(h, len) ==
  [heap |-> Append(h, Zeros(len)), addr |-> Len(h) + 1]

\* output_array_length = ...; centering_factor = ...; output = [0] * ...
ConvInit(t) ==
  /\ At(t, "conv_init")
  /\ LET th == threads[t]
         f == Top(th)
         ls == Len(heap[f.signal])
         lf == Len(heap[f.conv_filter])
         r == OutputAlloc(heap, OutputArrayLength(ls, lf))
     IN /\ heap' = r.heap
        /\ threads' = [threads EXCEPT ![t] = SetTop(th,
             [f EXCEPT !.output_array_length = OutputArrayLength(ls, lf),
                       !.centering_factor = CenteringFactor(ls, lf),
                       !.output = r.addr,
                       !.n = 0,
                       !.pc = "conv_outer"])]
  /\ UNCHANGED heap0

\* for n in range(output_array_length): running_sum = 0
ConvOuter(t) ==
  /\ At(t, "conv_outer")
  /\ LET th == threads[t]
         f == Top(th)
     IN threads' = [threads EXCEPT ![t] = SetTop(th,
          IF f.n < f.output_array_length
          THEN [f EXCEPT !.running_sum = 0, !.k = 0, !.pc = "conv_inner"]
          ELSE [f EXCEPT !.pc = "conv_ret"])]
  /\ UNCHANGED <<heap, heap0>>

\* One pass of `for k in range(len(conv_filter))`: the frame after it.
InnerStepBreakOnOverflow(f, h) ==
  IF f.k >= Len(h[f.conv_filter]) THEN [f EXCEPT !.pc = "conv_store"]
  ELSE LET signal_idx == f.n - f.k + f.centering_factor IN
       IF signal_idx < 0 \/ signal_idx > Len(h[f.signal]) - 1
       THEN [f EXCEPT !.pc = "conv_store"]
       ELSE [f EXCEPT !.running_sum =
                        @ + h[f.conv_filter][f.k + 1] * h[f.signal][signal_idx + 1],
                      !.k = @ + 1]
InnerStep(f, h) ==
  IF f.k >= Len(h[f.conv_filter]) THEN [f EXCEPT !.pc = "conv_store"]
  ELSE LET signal_idx == f.n - f.k + f.centering_factor IN
       IF signal_idx < 0 THEN [f EXCEPT !.pc = "conv_store"]
       ELSE IF signal_idx > Len(h[f.signal]) - 1 THEN [f EXCEPT !.k = @ + 1]
       ELSE [f EXCEPT !.running_sum =
                        @ + h[f.conv_filter][f.k + 1] * h[f.signal][signal_idx + 1],
                      !.k = @ + 1]

\* for k in range(len(conv_filter)): ... break / continue / running_sum += ...
ConvInner(t) ==
  /\ At(t, "conv_inner")
  /\ threads' = [threads EXCEPT ![t] =
       SetTop(threads[t], InnerStep(Top(threads[t]), heap))]
  /\ UNCHANGED <<heap, heap0>>

\* output[n] = running_sum, then the next n
ConvStore(t) ==
  /\ At(t, "conv_store")
  /\ LET th == threads[t]
         f == Top(th)
     IN /\ heap' = [heap EXCEPT ![f.output][f.n + 1] = f.running_sum]
        /\ threads' = [threads EXCEPT ![t] = SetTop(th,
             [f EXCEPT !.n = @ + 1, !.pc = "conv_outer"])]
  /\ UNCHANGED heap0

\* return output
ConvReturn(t) ==
  /\ At(t, "conv_ret")
  /\ threads' = [threads EXCEPT ![t] = Return(threads[t], Top(threads[t]).output)]
  /\ UNCHANGED <<heap, heap0>>

\* ------------------------------------------------------------------ inputs
SeqsUpTo(len) == UNION {[1..m -> Vals] : m \in 0..len}

\* A signal of the given length for the downsampler.
Signal(len) == [i \in 1..len |-> ((i * i) % 5) - 2]

\* The caller's lists are at addresses 2 and 3, after the kernel.
Start(x, y, c1, c2) ==
  /\ heap = <<KAISER_CONVOLUTION_FILTER, x, y>>
  /\ heap0 = heap
  /\ threads = [t \in Threads |-> IF t = 1 THEN c1 ELSE c2]

\* One call running alone, on short lists (distinct or the same list twice).
InitAlone ==
  \E x \in SeqsUpTo(MaxLen), y \in SeqsUpTo(MaxLen) :
    \E c \in {Call("convolve_arrays", <<2, 3>>), Call("convolve_arrays", <<3, 2>>),
              Call("convolve_arrays", <<2, 2>>), Call("decimate_by_2", <<2>>)} :
      Start(x, y, c, Idle)

\* downsample_by_2 running alone, on signals shorter and longer than the kernel.
InitDownsample ==
  \E len \in 0..MaxSignalLen :
    Start(Signal(len), <<>>, Call("downsample_by_2", <<2>>), Idle)

\* Two concurrent calls that share their lists: convolve_arrays(x, y) next to
\* convolve_arrays(y, x) or a decimate_by_2 of either list, and two
\* decimate_by_2 calls on one list.
InitConcurrent ==
  \E x \in SeqsUpTo(MaxConcLen), y \in SeqsUpTo(MaxConcLen) :
    \/ \E c2 \in {Call("convolve_arrays", <<3, 2>>),
                  Call("decimate_by_2", <<2>>), Call("decimate_by_2", <<3>>)} :
         Start(x, y, Call("convolve_arrays", <<2, 3>>), c2)
    \/ Start(x, y, Call("decimate_by_2", <<2>>), Call("decimate_by_2", <<2>>))

\* The lists given to concurrent downsample_by_2 calls.
DownsampleInputs == {<<>>, <<2>>}

\* Two concurrent downsample_by_2 calls on two lists (equal or not), and a
\* downsample_by_2 call concurrent with a call on the kernel itself.
InitConcurrentDownsample ==
  \E x \in DownsampleInputs, y \in DownsampleInputs :
    \E c2 \in {Call("downsample_by_2", <<3>>),
               Call("decimate_by_2", <<KernelAddr>>)} :
      Start(x, y, Call("downsample_by_2", <<2>>), c2)

Init == InitAlone \/ InitDownsample \/ InitConcurrent \/ InitConcurrentDownsample

Step(t) ==
  \/ DecimateCheck(t) \/ DecimateReturn(t)
  \/ DownsampleCheck(t) \/ DownsampleCallConvolve(t)
  \/ DownsampleCallDecimate(t) \/ DownsampleReturn(t)
  \/ ConvInit(t) \/ ConvOuter(t) \/ ConvInner(t) \/ ConvStore(t) \/ ConvReturn(t)

Next == \E t \in Threads : Step(t)

Spec == Init /\ [][Next]_vars

\* ------------------------------------------------------------- properties
Returned(t) == threads[t].status = "returned"
Raised(t) == threads[t].status = "raised"
TopLevel(t, fn) == threads[t].fn = fn
\* The list passed as the i-th argument of thread t's call, as it was then.
Arg(t, i) == heap0[threads[t].args[i]]
Result(t) == heap[threads[t].result]
NonEmptyArgs(t) == \A i \in 1..Len(threads[t].args) : Len(Arg(t, i)) > 0

\* Element m (0-based) of the full linear convolution of a and b.
RECURSIVE FullSum(_, _, _, _)
FullSum(a, b, m, i) ==
  IF i >= Len(a) THEN 0
  ELSE (IF m - i >= 0 /\ m - i <= Len(b) - 1 THEN a[i + 1] * b[m - i + 1] ELSE 0)
       + FullSum(a, b, m, i + 1)

\* The reference "same"-mode convolution: the middle max(len) elements.
SameReference(a, b) ==
  [m \in 1..Max(Len(a), Len(b)) |->
     FullSum(a, b, (m - 1) + ((Min(Len(a), Len(b)) - 1) \div 2), 0)]

\* C1: a finished convolve_arrays(a, b) on non-empty lists returned the
\* reference "same"-mode linear convolution of a and b.
C1_OracleEquivalence ==
  \A t \in Threads :
    (Returned(t) /\ TopLevel(t, "convolve_arrays") /\ NonEmptyArgs(t))
      => Result(t) = SameReference(Arg(t, 1), Arg(t, 2))

\* A call with a longer list of even length and a shorter one of even length
\* has returned a result that is not all zeros.
C1_Witness ==
  /\ Returned(1) /\ TopLevel(1, "convolve_arrays")
  /\ Len(Arg(1, 1)) = 4 /\ Len(Arg(1, 2)) = 2
  /\ \E i \in 1..Len(Result(1)) : Result(1)[i] # 0

C3_OutputLength ==
  \A t \in Threads :
    (Returned(t) /\ TopLevel(t, "convolve_arrays") /\ NonEmptyArgs(t))
      => /\ Len(Result(t)) = Max(Len(Arg(t, 1)), Len(Arg(t, 2)))
         /\ Min(Len(Arg(t, 1)), Len(Arg(t, 2))) > 1
              => Len(Result(t)) # Len(Arg(t, 1)) + Len(Arg(t, 2)) - 1

\* A call whose shorter list is the first argument and longer than 1 returned.
C3_Witness ==
  /\ Returned(1) /\ TopLevel(1, "convolve_arrays")
  /\ Len(Arg(1, 1)) = 2 /\ Len(Arg(1, 2)) = 3
  /\ Len(Result(1)) = 3

\* C4: decimate_by_2(s) on a non-empty list has length ceil(len(s) / 2) and
\* its element i is s[2 * i].
C4_Decimation ==
  \A t \in Threads :
    (Returned(t) /\ TopLevel(t, "decimate_by_2"))
      => /\ 2 * Len(Result(t)) \in {Len(Arg(t, 1)), Len(Arg(t, 1)) + 1}
         /\ \A i \in 0..(Len(Result(t)) - 1) : Result(t)[i + 1] = Arg(t, 1)[2 * i + 1]

\* A list of odd length with distinct neighbours has been decimated.
C4_Witness ==
  /\ Returned(1) /\ TopLevel(1, "decimate_by_2")
  /\ Len(Arg(1, 1)) = 3 /\ Arg(1, 1)[1] # Arg(1, 1)[2] /\ Arg(1, 1)[2] # Arg(1, 1)[3]
  /\ Len(Result(1)) = 2

\* ceil(len / 2)
HalfUp(len) == (len + 1) \div 2

\* C5: a finished downsample_by_2(s) on a non-empty list called
\* convolve_arrays(s, KAISER_CONVOLUTION_FILTER), kernel second, then
\* decimate_by_2 on what that returned, and returned its result:
\* decimate_by_2(convolve_arrays(s, KERNEL)), of length ceil(max(len(s), 32) / 2).
C5_DownsampleComposition ==
  \A t \in Threads :
    (Returned(t) /\ TopLevel(t, "downsample_by_2"))
      => LET th == threads[t]
             s == Arg(t, 1)
         IN /\ Len(th.calls) = 3
            /\ th.calls[2] = [fn |-> "convolve_arrays", args |-> <<th.args[1], KernelAddr>>]
            /\ th.calls[3].fn = "decimate_by_2"
            /\ heap[th.calls[3].args[1]] = convolve_arrays(s, KAISER_CONVOLUTION_FILTER)
            /\ Result(t) = decimate_by_2(heap[th.calls[3].args[1]])
            /\ Result(t) = decimate_by_2(convolve_arrays(s, KAISER_CONVOLUTION_FILTER))
            /\ Len(Result(t)) = HalfUp(Max(Len(s), 32))
            /\ Len(s) > 32 => Len(Result(t)) = HalfUp(Len(s))
            /\ Len(s) <= 32 => Len(Result(t)) = 16

\* A signal of odd length above 32 has been downsampled to 17 samples.
C5_Witness ==
  /\ Returned(1) /\ TopLevel(1, "downsample_by_2")
  /\ Len(Arg(1, 1)) = 33 /\ Len(Result(1)) = 17
  /\ \E i \in 1..17 : Result(1)[i] # 0

\* C6: decimate_by_2 and downsample_by_2 given an empty list never return
\* and never invoke another function; once they have stopped they have raised
\* ValueError, once, and produced no list.
C6_EmptyInput ==
  \A t \in Threads :
    (/\ threads[t].fn \in {"decimate_by_2", "downsample_by_2"}
     /\ Len(Arg(t, 1)) = 0)
      => /\ ~Returned(t)
         /\ Len(threads[t].calls) = 1
         /\ threads[t].result = NoAddr
         /\ ~Running(t) => (/\ Raised(t) /\ threads[t].error = ValueError
                            /\ threads[t].raised = 1)
         /\ (\A u \in Threads \ {t} : threads[u].status = "idle") => heap = heap0

\* downsample_by_2 has raised on an empty list.
C6_Witness ==
  /\ TopLevel(1, "downsample_by_2") /\ Len(Arg(1, 1)) = 0
  /\ Raised(1) /\ threads[1].raised = 1 /\ heap = heap0

\* The lists a thread's frames hold as outputs or intermediate results.
Owned(t) ==
  ({threads[t].result} \cup
   UNION {{threads[t].stack[i].output, threads[t].stack[i].filtered_signal,
           threads[t].stack[i].decimated_filtered_signal} :
            i \in 1..Len(threads[t].stack)}) \ {NoAddr}

\* C7: no call mutates in place.  The kernel and every list that existed when
\* the calls were made keep their values, and every list a call builds or
\* returns is a new one: not an argument, not the kernel, not another call's.
C7_NoMutation ==
  /\ Len(heap) >= Len(heap0)
  /\ \A a \in 1..Len(heap0) : heap[a] = heap0[a]
  /\ heap[KernelAddr] = KAISER_CONVOLUTION_FILTER
  /\ \A t \in Threads :
       /\ \A a \in Owned(t) : a > Len(heap0) /\ a <= Len(heap)
       /\ \A u \in Threads \ {t} : Owned(t) \cap Owned(u) = {}

\* convolve_arrays has returned a list that differs from the one list it was
\* given as both arguments.
C7_Witness ==
  /\ Returned(1) /\ TopLevel(1, "convolve_arrays")
  /\ threads[1].args = <<2, 2>> /\ Len(Arg(1, 1)) = 3
  /\ \E i \in 1..3 : Result(1)[i] # Arg(1, 1)[i]

\* What the call of thread th returns when it runs alone on the lists it was given.
RunAlone(th) ==
  CASE th.fn = "convolve_arrays" -> convolve_arrays(heap0[th.args[1]], heap0[th.args[2]])
    [] th.fn = "decimate_by_2" -> decimate_by_2(heap0[th.args[1]])
    [] th.fn = "downsample_by_2" -> downsample_by_2(heap0[th.args[1]])

Outcome(t) ==
  IF Raised(t) THEN threads[t].error ELSE Result(t)

\* C8: whatever the interleaving, a call that has ended has raised or returned
\* exactly what it does when run alone on the same inputs; two ended calls of
\* the same function on equal inputs have equal outcomes.
C8_ConcurrentCalls ==
  /\ \A t \in Threads :
       (Returned(t) \/ Raised(t)) => Outcome(t) = RunAlone(threads[t])
  /\ \A t, u \in Threads :
       (/\ Returned(t) \/ Raised(t)
        /\ Returned(u) \/ Raised(u)
        /\ threads[t].fn = threads[u].fn
        /\ Len(threads[t].args) = Len(threads[u].args)
        /\ \A i \in 1..Len(threads[t].args) : Arg(t, i) = Arg(u, i))
         => Outcome(t) = Outcome(u)

\* Two downsample_by_2 calls on equal lists have both returned after running
\* interleaved: thread 1 built its filtered signal first, thread 2 its result first.
C8_Witness ==
  /\ Returned(1) /\ Returned(2)
  /\ TopLevel(1, "downsample_by_2") /\ TopLevel(2, "downsample_by_2")
  /\ Len(Arg(1, 1)) = 1
  /\ threads[1].calls[3].args = <<4>> /\ threads[2].calls[3].args = <<5>>
  /\ threads[2].result = 6 /\ threads[1].result = 7

\* The sum over all k of conv_filter[k] * signal[n - k + c], where a term whose
\* index falls outside the signal counts as zero.
RECURSIVE PaddedSum(_, _, _, _, _)
PaddedSum(signal, conv_filter, n, c, k) ==
  IF k >= Len(conv_filter) THEN 0
  ELSE (IF n - k + c >= 0 /\ n - k + c <= Len(signal) - 1
        THEN conv_filter[k + 1] * signal[n - k + c + 1] ELSE 0)
       + PaddedSum(signal, conv_filter, n, c, k + 1)

\* C9: when the inner loop of convolve_arrays is left (by exhaustion or by the
\* break), running_sum is the zero-padded sum over all k, with the centering
\* factor (min(len(signal), len(conv_filter)) - 1) // 2, for non-empty lists.
C9_NoTermDropped ==
  \A t \in Threads :
    (At(t, "conv_store")
       /\ Len(heap[Top(threads[t]).signal]) > 0
       /\ Len(heap[Top(threads[t]).conv_filter]) > 0)
      => LET f == Top(threads[t])
             signal == heap[f.signal]
             conv_filter == heap[f.conv_filter]
         IN f.running_sum =
              PaddedSum(signal, conv_filter, f.n,
                        (Min(Len(signal), Len(conv_filter)) - 1) \div 2, 0)

\* The loop was left by the break after a skipped term and an added one.
C9_Witness ==
  /\ At(1, "conv_store")
  /\ LET f == Top(threads[1])
     IN /\ Len(heap[f.signal]) = 2 /\ Len(heap[f.conv_filter]) = 4
        /\ f.n = 2 /\ f.k = 3 /\ f.running_sum # 0

\* The zero-length argument count of a convolve_arrays call.
EmptyArgs(t) == Cardinality({i \in 1..2 : Len(Arg(t, i)) = 0})

\* C10: convolve_arrays given an empty list never raises: with exactly one
\* empty argument it returns zeros, as many as the other argument is long
\* (centering_factor is -1 and running_sum stays 0), with both empty it returns
\* the empty list.
C10_EmptyConvolve ==
  \A t \in Threads :
    (TopLevel(t, "convolve_arrays") /\ EmptyArgs(t) > 0)
      => /\ ~Raised(t) /\ threads[t].raised = 0
         /\ (Running(t) /\ Top(threads[t]).pc # "conv_init")
              => /\ Top(threads[t]).centering_factor = -1
                 /\ Top(threads[t]).running_sum = 0
         /\ Returned(t)
              => Result(t) = Zeros(Max(Len(Arg(t, 1)), Len(Arg(t, 2))))

\* A call with an empty signal and a filter of three has returned three zeros.
C10_Witness ==
  /\ Returned(1) /\ TopLevel(1, "convolve_arrays")
  /\ Len(Arg(1, 1)) = 0 /\ Len(Arg(1, 2)) = 3
  /\ Result(1) = <<0, 0, 0>>

====
